---------------------------- MODULE Spec2Model ----------------------------
(***************************************************************************)
(* A model of nhsmass/recal.py: recallibrate and the ErrorTable class.     *)
(*                                                                         *)
(* Real numbers (numpy float64 values) are modelled as exact rationals     *)
(* [n |-> numerator, d |-> denominator], d > 0, in lowest terms.  The      *)
(* record NaN (d = 0) stands for a non-finite float (nan or +-inf): every  *)
(* arithmetic operation on it yields NaN and every comparison with it is   *)
(* FALSE, as in IEEE arithmetic.                                           *)
(***************************************************************************)
EXTENDS Integers, Sequences, FiniteSets, TLC

(***************************************************************************)
(* Exact rational arithmetic                                               *)
(***************************************************************************)
RECURSIVE GCD(_, _)
GCD(x, y) == IF y = 0 THEN x ELSE GCD(y, x % y)

Abs(x) == IF x < 0 THEN -x ELSE x

NaN == [n |-> 0, d |-> 0]

IsFinite(x) == x.d # 0

\* n/d in lowest terms, d # 0
Rat(num, den) ==
    LET s == IF den < 0 THEN -1 ELSE 1
        g == GCD(Abs(num), Abs(den))
    IN  [n |-> (s * num) \div g, d |-> (s * den) \div g]

R(k) == [n |-> k, d |-> 1]

RNeg(x) == [n |-> -x.n, d |-> x.d]

RAdd(x, y) ==
    IF ~IsFinite(x) \/ ~IsFinite(y) THEN NaN
    ELSE LET g == GCD(x.d, y.d)
             l == (x.d \div g) * y.d
         IN  Rat(x.n * (l \div x.d) + y.n * (l \div y.d), l)

RSub(x, y) == RAdd(x, RNeg(y))

RMul(x, y) ==
    IF ~IsFinite(x) \/ ~IsFinite(y) THEN NaN
    ELSE LET g1 == GCD(Abs(x.n), y.d)
             g2 == GCD(Abs(y.n), x.d)
         IN  Rat((x.n \div g1) * (y.n \div g2), (x.d \div g2) * (y.d \div g1))

\* numpy division: a zero divisor gives a non-finite value, not an exception
RDiv(x, y) ==
    IF ~IsFinite(x) \/ ~IsFinite(y) \/ y.n = 0 THEN NaN
    ELSE RMul(x, Rat(y.d, y.n))

RFloor(x) == x.n \div x.d

RLt(x, y) ==
    /\ IsFinite(x)
    /\ IsFinite(y)
    /\ LET qx == RFloor(x)
           qy == RFloor(y)
       IN  IF qx # qy THEN qx < qy
           ELSE (x.n - qx * x.d) * y.d < (y.n - qy * y.d) * x.d

RLe(x, y) == IsFinite(x) /\ IsFinite(y) /\ ~RLt(y, x)

\* np.fabs
fabs(x) == IF x.n < 0 THEN RNeg(x) ELSE x

RECURSIVE RSum(_)
RSum(s) == IF s = <<>> THEN R(0) ELSE RAdd(Head(s), RSum(Tail(s)))

\* Series.min() / Series.max() of a non-empty column of finite values
RECURSIVE RMinIn(_, _, _)
RMinIn(s, lo, hi) ==
    IF lo = hi THEN s[lo]
    ELSE LET mid == (lo + hi) \div 2
             l == RMinIn(s, lo, mid)
             r == RMinIn(s, mid + 1, hi)
         IN  IF RLt(r, l) THEN r ELSE l

RMin(s) == RMinIn(s, 1, Len(s))

RECURSIVE RMaxIn(_, _, _)
RMaxIn(s, lo, hi) ==
    IF lo = hi THEN s[lo]
    ELSE LET mid == (lo + hi) \div 2
             l == RMaxIn(s, lo, mid)
             r == RMaxIn(s, mid + 1, hi)
         IN  IF RLt(l, r) THEN r ELSE l

RMax(s) == RMaxIn(s, 1, Len(s))

\* Series.mean(): NaN on an empty column
RMean(s) == IF s = <<>> THEN NaN ELSE RDiv(RSum(s), R(Len(s)))

\* np.linspace(start, stop, num)[k], k in 0..num-1 (num >= 2)
linspace(start, stop, num, k) ==
    RAdd(start, RMul(R(k), RDiv(RSub(stop, start), R(num - 1))))

\* a sequence given element by element, as the tuple of its values
AsSeq(s) == SubSeq(s, 1, Len(s))

\* the column `col` of a table (a sequence of rows)
Column(tbl, col) == AsSeq([k \in 1..Len(tbl) |-> tbl[k][col]])

\* the literal 1000000 / 1e6 of the ppm conversions
Million == 1000000


\* np.searchsorted(arr, v, side='left'): the bisection numpy runs
RECURSIVE bisect_left(_, _, _, _)
bisect_left(arr, v, lo, hi) ==
    IF lo >= hi THEN lo
    ELSE LET mid == lo + ((hi - lo) \div 2)
         IN  IF RLt(arr[mid + 1], v)
             THEN bisect_left(arr, v, mid + 1, hi)
             ELSE bisect_left(arr, v, lo, mid)

searchsorted(arr, v) == bisect_left(arr, v, 0, Len(arr))

(***************************************************************************)
(* State                                                                   *)
(***************************************************************************)
VARIABLES
    \* recallibrate
    heap,         \* the Spectrum objects: reference -> [table, metadata]
    given,        \* the value of the caller's Spectrum when it was built
    spec,         \* recallibrate's local `spec` (a reference into heap)
    how,          \* recallibrate's argument `how`
    err,          \* recallibrate's local `err`, the table of the ErrorTable
    a,            \* recallibrate's local `a`, the wide+1 bin edges
    i,            \* recallibrate's loop variable
    hits,         \* per row, how many times line 80 has updated its mass
    pc,           \* where recallibrate stands
    \* ErrorTable
    table,        \* self.table of the current ErrorTable (<<>>: None)
    source,       \* self.table of the ErrorTable the last call was made on
    last,         \* the last call: its name and arguments
    ops,          \* the number of extrapolate and zeroshift calls so far
    \* ErrorTable.md_error_map
    md_spec,      \* the table of the Spectrum passed in
    masses,       \* the local `masses` (line 144)
    data,         \* the local `data` (lines 146-149)
    md_ppm,       \* the argument `ppm`
    index,        \* the number of rows of `data` the loop has taken
    data_error,   \* the local `data_error`
    data_dif,     \* per entry of data_error, the difference i it came from
    md_pc,
    \* ErrorTable.etalon_error
    et_spec,      \* the table of the Spectrum passed in
    et,           \* the local `et`, the etalon's masses
    df,           \* the local `df`
    quart,        \* the argument `quart`
    et_ppm,       \* the argument `ppm`
    et_i,         \* the loop variable of line 403
    error_table,  \* the local `error_table` (lines 419-420)
    et_pc

recalVars == <<heap, given, spec, how, err, a, i, hits, pc>>
curveVars == <<table, source, last, ops>>
matchVars == <<md_spec, masses, data, md_ppm, index, data_error, data_dif, md_pc>>
etalonVars == <<et_spec, et, df, quart, et_ppm, et_i, error_table, et_pc>>

vars == <<recalVars, curveVars, matchVars, etalonVars>>

\* a component that is not running
NoCall == [op |-> "none"]

RecalIdle ==
    /\ given = [table |-> <<>>, metadata |-> {}]
    /\ heap = <<given, given>>
    /\ spec = 1
    /\ how = "assign"
    /\ err = <<>>
    /\ a = <<>>
    /\ i = 0
    /\ hits = <<>>
    /\ pc = "off"

CurveIdle ==
    /\ table = <<>>
    /\ source = <<>>
    /\ last = NoCall
    /\ ops = 0

MatchIdle ==
    /\ md_spec = <<>>
    /\ masses = <<>>
    /\ data = <<>>
    /\ md_ppm = R(0)
    /\ index = 0
    /\ data_error = <<>>
    /\ data_dif = <<>>
    /\ md_pc = "off"

EtalonIdle ==
    /\ et_spec = <<>>
    /\ et = <<>>
    /\ df = <<>>
    /\ quart = R(0)
    /\ et_ppm = R(0)
    /\ et_i = 0
    /\ error_table = <<>>
    /\ et_pc = "off"

(***************************************************************************)
(* Spectrum (nhsmass/spectrum.py): a table of rows and a metadata store.   *)
(* A row holds its label in the table's index, mass, intensity, whether    *)
(* assign() gives it a formula, and the rel_error calc_error() gives it.   *)
(***************************************************************************)
Row(label, mass, intensity, assign, rel_error) ==
    [label |-> label, mass |-> mass, intensity |-> intensity,
     assign |-> assign, rel_error |-> rel_error]

\* a row without an assignment
Peak(label, mass, intensity) == Row(label, mass, intensity, FALSE, NaN)

\* Spectrum.copy(): an independent object of equal value
Spectrum_copy(obj) == [table |-> obj.table, metadata |-> obj.metadata]

\* DataFrame.reset_index(drop=True): the rows relabelled 0..n-1
reset_index(tbl) ==
    AsSeq([k \in 1..Len(tbl) |-> [tbl[k] EXCEPT !.label = k - 1]])

\* metadata.add({key: value})
metadata_add(md, key, value) ==
    {p \in md : p[1] # key} \cup {<<key, value>>}

\* the set of the elements of a sequence
Range(s) == {s[k] : k \in 1..Len(s)}

\* Spectrum.drop_unassigned().table
drop_unassigned(tbl) == SelectSeq(tbl, LAMBDA r : r.assign)

(***************************************************************************)
(* ErrorTable: fit_kernel, extrapolate, zeroshift                          *)
(***************************************************************************)
\* the constant 100 of lines 212 and 445 (the 100 columns of the density map)
GridN == 100

\* The ppm column after savgol_filter (lines 196-206).  The kernel density
\* estimate and the filter are numerical library code; their output is any
\* sequence of GridN values, drawn here from the piecewise-linear shapes
\* c0 + s1*min(k, Kink) + s2*max(k - Kink, 0), k = 0..GridN-1.
Kink == 40

Ridge(shape) ==
    AsSeq([k \in 1..GridN |->
        R(shape[1]
          + shape[2] * (IF k - 1 < Kink THEN k - 1 ELSE Kink)
          + shape[3] * (IF k - 1 < Kink THEN 0 ELSE k - 1 - Kink))])

Shapes == {<<0, 0, 0>>, <<1, 1, 0>>, <<0, 2, -1>>, <<-1, 0, 3>>}

\* lines 208-230: the mass axis and the ppm column locked to start at zero
fit_kernel(ppm, mass) ==
    LET xmin == RMin(mass)
        xmax == RMax(mass)
    IN  AsSeq([k \in 1..GridN |->
            [i |-> k - 1,
             ppm |-> RSub(ppm[k], ppm[1]),
             mass |-> linspace(xmin, xmax, GridN, k - 1)]])

\* DataFrame.sort_values in its stable order, ascending in the keys `by`
\* (one per row): a row goes after the rows of smaller key and after the
\* earlier rows of equal key
sort_values(tbl, by) ==
    IF \A k \in 1..(Len(tbl) - 1) : ~RLt(by[k + 1], by[k]) THEN tbl
    ELSE LET rank == AsSeq([k \in 1..Len(tbl) |->
                         Cardinality({j \in 1..Len(tbl) :
                             \/ RLt(by[j], by[k])
                             \/ (~RLt(by[k], by[j]) /\ j < k)})])
         IN  AsSeq([r \in 1..Len(tbl) |->
                 tbl[CHOOSE k \in 1..Len(tbl) : rank[k] = r - 1]])

\* scipy's interp1d sorts x (and y with it) unless told it is sorted
SortByMass(tbl) == sort_values(tbl, Column(tbl, "mass"))

Clip(v, lo, hi) == IF v < lo THEN lo ELSE IF v > hi THEN hi ELSE v

\* np.interp's rule, which holds the boundary value outside the domain
interp1d_clamped(x, y, x_new) ==
    LET n == Len(x)
    IN  IF RLe(x_new, x[1]) THEN y[1]
        ELSE IF RLe(x[n], x_new) THEN y[n]
        ELSE LET idx == searchsorted(x, x_new)
                 slope == RDiv(RSub(y[idx + 1], y[idx]), RSub(x[idx + 1], x[idx]))
             IN  RAdd(RMul(slope, RSub(x_new, x[idx])), y[idx])

\* line 446-447: interp1d(x, y, bounds_error=False, fill_value='extrapolate')
\* at x_new, for sorted x: the segment is the one searchsorted finds, clipped
\* to the first and the last one, and its line is followed wherever x_new is
interp1d(x, y, x_new) ==
    LET n == Len(x)
        idx == Clip(searchsorted(x, x_new), 1, n - 1)
        slope == RDiv(RSub(y[idx + 1], y[idx]), RSub(x[idx + 1], x[idx]))
    IN  RAdd(RMul(slope, RSub(x_new, x[idx])), y[idx])

\* lines 442-452; ranges = <<>> stands for None
extrapolate(tbl, ranges) ==
    LET rng == IF ranges = <<>>
               THEN <<RMin(Column(tbl, "mass")), RMax(Column(tbl, "mass"))>>
               ELSE ranges
        sorted == SortByMass(tbl)
        x == Column(sorted, "mass")
        y == Column(sorted, "ppm")
    IN  AsSeq([k \in 1..GridN |->
            LET m == linspace(rng[1], rng[2], GridN, k - 1)
            IN  [mass |-> m, ppm |-> interp1d(x, y, m)]])

\* line 477: spec.drop_unassigned().calc_error()['rel_error'].mean()
mean_error(sp) == RMean(Column(drop_unassigned(sp), "rel_error"))

\* lines 476-479
zeroshift(tbl, sp) ==
    LET shift == mean_error(sp)
    IN  AsSeq([k \in 1..Len(tbl) |-> [tbl[k] EXCEPT !.ppm = RSub(@, shift)]])

\* lines 308-325: the ridge of the assigned peaks' errors, extrapolated to
\* the whole spectrum and shifted.  spectr is the assigned copy of spec.
assign_error(ppm, spectr) ==
    LET fitted == fit_kernel(ppm, Column(drop_unassigned(spectr), "mass"))
        wide == extrapolate(fitted, <<RMin(Column(spectr, "mass")),
                                      RMax(Column(spectr, "mass"))>>)
    IN  zeroshift(wide, spectr)

\* lines 352-357 and 422-425: the ridge over the spectrum's mass range
massdiff_error(ppm, sp) == fit_kernel(ppm, Column(sp, "mass"))

(***************************************************************************)
(* The ErrorTable methods as a caller runs them: one of the strategies     *)
(* builds the table, then extrapolate and zeroshift are called on it.      *)
(***************************************************************************)
\* at most MaxOps extrapolate and zeroshift calls follow the strategy
MaxOps == 2
\* the widest range extrapolate is asked for is (0, RangeHi)
RangeHi == 6

\* assigned spectra: three or more assigned peaks off a common line, as the
\* kernel density estimate needs; and a spectrum assign() finds nothing in
SpectrumA ==
    << Peak(0, R(1), 3),
       Row(1, R(2), 9, TRUE, R(1)),
       Row(2, R(3), 4, TRUE, R(2)),
       Row(3, R(4), 7, TRUE, R(0)),
       Peak(4, R(5), 1) >>

SpectrumB ==
    << Row(0, R(2), 5, TRUE, R(-1)),
       Row(1, R(3), 2, TRUE, R(0)),
       Row(2, R(5), 8, TRUE, R(2)) >>

SpectrumC == << Peak(0, R(1), 2), Peak(1, R(4), 6), Peak(2, R(6), 1) >>

CurveSpectra == {SpectrumA, SpectrumB, SpectrumC}

Ranges ==
    { <<>>,
      <<R(0), R(RangeHi)>>,
      <<R(2), R(3)>>,
      <<R(3), R(3)>>,
      <<R(4), R(1)>> }

InitCurve == CurveIdle /\ RecalIdle /\ MatchIdle /\ EtalonIdle

\* massdiff_error (lines 352-357) and etalon_error (lines 422-425) after the
\* scatter is built: ErrorTable(fit_kernel(kdm, mass of the spectrum))
massdiff_error_call ==
    /\ table = <<>>
    /\ \E shape \in Shapes, sp \in CurveSpectra :
        /\ table' = massdiff_error(Ridge(shape), sp)
        /\ last' = [op |-> "massdiff_error", spec |-> sp]
    /\ source' = <<>>
    /\ UNCHANGED <<ops, recalVars, matchVars, etalonVars>>

\* assign_error (lines 308-325)
assign_error_call ==
    /\ table = <<>>
    /\ \E shape \in Shapes, sp \in CurveSpectra :
        /\ Len(drop_unassigned(sp)) >= 3
        /\ table' = assign_error(Ridge(shape), sp)
        /\ last' = [op |-> "assign_error", spec |-> sp]
    /\ source' = <<>>
    /\ UNCHANGED <<ops, recalVars, matchVars, etalonVars>>

\* ErrorTable.extrapolate (lines 427-452)
extrapolate_call ==
    /\ table # <<>>
    /\ ops < MaxOps
    /\ \E ranges \in Ranges :
        /\ table' = extrapolate(table, ranges)
        /\ last' = [op |-> "extrapolate", ranges |-> ranges]
    /\ source' = table
    /\ ops' = ops + 1
    /\ UNCHANGED <<recalVars, matchVars, etalonVars>>

\* ErrorTable.zeroshift (lines 463-479)
zeroshift_call ==
    /\ table # <<>>
    /\ ops < MaxOps
    /\ \E sp \in CurveSpectra :
        /\ table' = zeroshift(table, sp)
        /\ last' = [op |-> "zeroshift", spec |-> sp]
    /\ source' = table
    /\ ops' = ops + 1
    /\ UNCHANGED <<recalVars, matchVars, etalonVars>>

NextCurve ==
    \/ massdiff_error_call
    \/ assign_error_call
    \/ extrapolate_call
    \/ zeroshift_call

SpecCurve == InitCurve /\ [][NextCurve]_vars

(***************************************************************************)
(* Claims about the ErrorTable methods                                     *)
(***************************************************************************)
\* the curve as a piecewise-linear function, sampled at a mass
SampleAt(tbl, mass) ==
    LET sorted == SortByMass(tbl)
    IN  interp1d(Column(sorted, "mass"), Column(sorted, "ppm"), mass)

AssignedMasses(sp) == Column(drop_unassigned(sp), "mass")

\* C7: after zeroshift(spec), the mean of the returned curve's ppm values
\* sampled at the masses of the assigned peaks of spec is 0, whenever spec
\* has an assigned peak.
C7_ZeroMeanAfterShift ==
    (last.op = "zeroshift" /\ AssignedMasses(last.spec) # <<>>) =>
        RMean([k \in 1..Len(AssignedMasses(last.spec)) |->
                  SampleAt(table, AssignedMasses(last.spec)[k])]) = R(0)

StrictlyIncreasing(tbl) ==
    \A k \in 1..(Len(tbl) - 1) : RLt(tbl[k].mass, tbl[k + 1].mass)

\* the point (mass, ppm) lies on the straight line through rows p and q
OnLine(p, q, mass, ppm) ==
    RMul(RSub(ppm, p.ppm), RSub(q.mass, p.mass))
        = RMul(RSub(q.ppm, p.ppm), RSub(mass, p.mass))

Extrapolated ==
    /\ last.op = "extrapolate"
    /\ StrictlyIncreasing(source)
    /\ \A k \in 1..Len(source) : IsFinite(source[k].ppm)

\* C8: extrapolate returns a curve whose value at a target mass below the
\* source's first mass lies on the line through the source's first two
\* points, at a target mass above the source's last mass on the line through
\* its last two points, and inside the source's domain on the segment
\* between the two neighbouring source points.
C8_LinearExtension ==
    Extrapolated =>
        LET n == Len(source)
        IN  \A k \in 1..Len(table) :
                LET m == table[k].mass
                    v == table[k].ppm
                IN  IF RLt(m, source[1].mass)
                    THEN OnLine(source[1], source[2], m, v)
                    ELSE IF RLt(source[n].mass, m)
                    THEN OnLine(source[n - 1], source[n], m, v)
                    ELSE \E j \in 1..(n - 1) :
                            /\ RLe(source[j].mass, m)
                            /\ RLe(m, source[j + 1].mass)
                            /\ OnLine(source[j], source[j + 1], m, v)

C8_Witness ==
    /\ Extrapolated
    /\ \E k \in 1..Len(table) :
        RLt(table[k].mass, source[1].mass) /\ table[k].ppm # source[1].ppm
    /\ \E k \in 1..Len(table) :
        /\ RLt(source[Len(source)].mass, table[k].mass)
        /\ table[k].ppm # source[Len(source)].ppm
    /\ \E k \in 1..Len(table) :
        RLt(source[1].mass, table[k].mass) /\ RLt(table[k].mass, source[Len(source)].mass)

\* C10: every ErrorTable a strategy produced through fit_kernel, and every
\* ErrorTable obtained from one by extrapolate and zeroshift calls, has
\* exactly 100 rows whose masses are strictly increasing.
C10_HundredIncreasing ==
    table # <<>> => Len(table) = GridN /\ StrictlyIncreasing(table)

(***************************************************************************)
(* recallibrate (lines 30-84)                                              *)
(***************************************************************************)
\* curve masses of the supplied tables are drawn from 1..MaxMass
MaxMass == 4
\* supplied tables have 1..MaxWide rows
MaxWide == 2

\* the reference the caller holds, and the one a copy is allocated at
Caller == 1
Fresh == 2
Free == [table |-> <<>>, metadata |-> {<<"free", "free">>}]

\* line 57: the local `spec` is rebound to the copy
CopyAliased(old, new) == old

CopyTarget(old, new) == new

\* line 74 with one edge too many: np.linspace(min_mass, max_mass, wide+2)
BinEdgesWider(tbl) ==
    LET wide == Len(tbl)
        min_mass == RMin(Column(tbl, "mass"))
        max_mass == RMax(Column(tbl, "mass"))
    IN  AsSeq([k \in 1..(wide + 2) |->
                  linspace(min_mass, max_mass, wide + 2, k - 1)])

\* line 74: a = np.linspace(min_mass, max_mass, wide+1)
BinEdges(tbl) ==
    LET wide == Len(tbl)
        min_mass == RMin(Column(tbl, "mass"))
        max_mass == RMax(Column(tbl, "mass"))
    IN  AsSeq([k \in 1..(wide + 1) |->
                  linspace(min_mass, max_mass, wide + 1, k - 1)])

\* line 77: (mass > a[i]) & (mass <= a[i+1])
InBinClosed(mass, lo, hi) == RLe(lo, mass) /\ RLe(mass, hi)

InBin(mass, lo, hi) == RLt(lo, mass) /\ RLe(mass, hi)

\* lines 78-80: e = mass * ppm / 1000000; mass = mass + e
CorrectedMinus(mass, ppm) == RSub(mass, RDiv(RMul(mass, ppm), R(Million)))

Corrected(mass, ppm) == RAdd(mass, RDiv(RMul(mass, ppm), R(Million)))

\* line 77: the rows bin `bin` selects
Selected(tbl, edges, bin) ==
    {k \in 1..Len(tbl) : InBin(tbl[k].mass, edges[bin + 1], edges[bin + 2])}

\* lines 77-80 for one bin: the rows the bin selects are updated in place,
\* each with the ppm of row `bin` of the curve
ApplyBin(tbl, edges, curve, bin) ==
    AsSeq([k \in 1..Len(tbl) |->
        IF k \in Selected(tbl, edges, bin)
        THEN [tbl[k] EXCEPT !.mass = Corrected(@, curve[bin + 1].ppm)]
        ELSE tbl[k]])

\* the supplied tables: rows with the default labels 0..wide-1
PpmSet == {R(-500000), R(0), R(250000), R(500000)}

CurveRow == [mass : {R(m) : m \in 1..MaxMass}, ppm : PpmSet]

Curves == UNION {[1..w -> CurveRow] : w \in 1..MaxWide}

\* the two-row table {(100, 5 ppm), (200, -5 ppm)}
ScenarioCurve ==
    << [mass |-> R(100), ppm |-> R(5)], [mass |-> R(200), ppm |-> R(-5)] >>

\* The spectra a caller holds.  GridSpectrum: one peak every half unit
\* around the curves' range, unsorted and labelled as a filtered table is,
\* every third peak assigned.  ScenarioSpectrum: masses
\* [100.0000, 100.0100, 200.0050], intensities [10, 5, 8].
GridSpectrum ==
    [table |-> AsSeq([k \in 1..(2 * MaxMass + 2) |->
                    Row(2 * k + 1, Rat(2 * MaxMass + 3 - k, 2), k,
                        k % 3 = 0, IF k % 3 = 0 THEN R((k % 2) + 1) ELSE NaN)]),
     metadata |-> {<<"name", "grid">>}]

ScenarioSpectrum ==
    [table |-> << Peak(0, R(100), 10),
                  Peak(1, Rat(10001, 100), 5),
                  Peak(2, Rat(200005, 1000), 8) >>,
     metadata |-> {}]

Hows == {"assign", "mdm", "etalon.csv"}

InitRecal ==
    /\ given \in {GridSpectrum, ScenarioSpectrum}
    /\ heap = <<given, Free>>
    /\ spec = Caller
    /\ how = "assign"
    /\ err = <<>>
    /\ a = <<>>
    /\ i = 0
    /\ hits = [k \in 1..Len(given.table) |-> 0]
    /\ pc = "idle"
    /\ CurveIdle /\ MatchIdle /\ EtalonIdle

\* lines 57 and 68-74, once the ErrorTable is at hand
Enter(tbl, h) ==
    LET target == CopyTarget(spec, Fresh)
        copied == [heap EXCEPT ![Fresh] = Spectrum_copy(heap[spec])]
    IN  /\ spec' = target
        /\ heap' = [copied EXCEPT ![target].table = reset_index(@)]
        /\ how' = h
        /\ err' = tbl
        /\ a' = BinEdges(tbl)
        /\ i' = 0
        /\ pc' = "loop"
        /\ UNCHANGED <<given, hits, curveVars, matchVars, etalonVars>>

\* a call with error_table supplied; `how` is only recorded
recallibrate_supplied ==
    /\ pc = "idle"
    /\ \E tbl \in Curves \cup {ScenarioCurve}, h \in Hows : Enter(tbl, h)

\* a call with error_table None (lines 59-66): the strategy `how` names
\* computes the table from the copy.  The strategy's kernel density estimate
\* needs three peaks or more (assigned ones for 'assign'); with fewer it
\* raises and so does the call.  The strategies that succeed are run on
\* GridSpectrum.
recallibrate_strategy ==
    /\ pc = "idle"
    /\ \E h \in Hows, shape \in Shapes :
        LET tbl == Spectrum_copy(heap[spec]).table
        IN  \/ /\ h = "assign"
               /\ Len(drop_unassigned(tbl)) >= 3
               /\ given = GridSpectrum
               /\ Enter(assign_error(Ridge(shape), tbl), h)
            \/ /\ h # "assign"
               /\ Len(tbl) >= 3
               /\ given = GridSpectrum
               /\ Enter(massdiff_error(Ridge(shape), tbl), h)
            \/ /\ h = "assign"
               /\ Len(drop_unassigned(tbl)) < 3
               /\ pc' = "raised"
               /\ how' = h
               /\ heap' = [heap EXCEPT ![Fresh] = Spectrum_copy(heap[spec])]
               /\ spec' = CopyTarget(spec, Fresh)
               /\ UNCHANGED <<given, err, a, i, hits,
                              curveVars, matchVars, etalonVars>>

\* lines 76-80, one pass of the outer loop
recallibrate_bin ==
    /\ pc = "loop"
    /\ i < Len(err)
    /\ heap' = [heap EXCEPT ![spec].table = ApplyBin(@, a, err, i)]
    /\ hits' = [k \in 1..Len(hits) |->
                    IF k \in Selected(heap[spec].table, a, i)
                    THEN hits[k] + 1 ELSE hits[k]]
    /\ i' = i + 1
    /\ UNCHANGED <<given, spec, how, err, a, pc,
                   curveVars, matchVars, etalonVars>>

\* lines 82-84
recallibrate_return ==
    /\ pc = "loop"
    /\ i = Len(err)
    /\ heap' = [heap EXCEPT ![spec].metadata = metadata_add(@, "recallibrate", how)]
    /\ pc' = "done"
    /\ UNCHANGED <<given, spec, how, err, a, i, hits,
                   curveVars, matchVars, etalonVars>>

NextRecal ==
    \/ recallibrate_supplied
    \/ recallibrate_strategy
    \/ recallibrate_bin
    \/ recallibrate_return

SpecRecal == InitRecal /\ [][NextRecal]_vars

(***************************************************************************)
(* Claims about recallibrate                                               *)
(***************************************************************************)
\* the returned spectrum's table, and the masses the caller passed in
Returned == heap[spec].table

InputMass(k) == given.table[k].mass

\* m0 < mass <= m1 for the curve's minimum m0 and maximum m1
InRange(mass) == RLt(a[1], mass) /\ RLe(mass, a[Len(a)])

\* the bin (a[b], a[b+1]] that holds an in-range mass
BinOf(mass) ==
    CHOOSE b \in 0..(Len(err) - 1) : RLt(a[b + 1], mass) /\ RLe(mass, a[b + 2])

\* C1: every peak whose input mass m satisfies m0 < m <= m1 is corrected
\* exactly once over the whole loop, and its output mass is
\* m + m*ppm[i]/1e6 for the one bin i that contains m.
C1_CorrectedExactlyOnce ==
    pc = "done" =>
        \A k \in 1..Len(given.table) :
            InRange(InputMass(k)) =>
                /\ hits[k] = 1
                /\ Returned[k].mass
                       = RAdd(InputMass(k),
                              RDiv(RMul(InputMass(k), err[BinOf(InputMass(k)) + 1].ppm),
                                   R(Million)))

\* C2: a peak whose input mass is <= the curve's minimum or > the curve's
\* maximum has the same mass in the returned spectrum as in the input, at
\* every point of the loop and at the return.
C2_OutsideUnchanged ==
    pc \in {"loop", "done"} =>
        \A k \in 1..Len(given.table) :
            ~InRange(InputMass(k)) => Returned[k].mass = InputMass(k)

C2_Witness ==
    /\ pc = "done"
    /\ \E k \in 1..Len(given.table) : RLe(InputMass(k), a[1])
    /\ \E k \in 1..Len(given.table) : RLt(a[Len(a)], InputMass(k))
    /\ \E k \in 1..Len(given.table) : hits[k] > 0 /\ Returned[k].mass # InputMass(k)

Scenario == pc = "done" /\ given = ScenarioSpectrum /\ err = ScenarioCurve

\* C3 (as stated): masses [100.0000, 100.0100, 200.0050] with the curve
\* {(100, 5 ppm), (200, -5 ppm)} return [100.0000, 100.0105, 199.9960].
C3_ScenarioAsStated ==
    Scenario =>
        Column(Returned, "mass") = <<R(100), Rat(1000105, 10000), Rat(199996, 1000)>>

\* C3 (amended): the same call returns [100.0000, 100.01050005, 200.0050]:
\* 100.0000 is the excluded left edge of bin 0, 100.0100 gains
\* 100.01 * 5 / 1e6 = 0.00050005, and 200.0050 lies above the curve's
\* maximum 200 and is left as it is.
C3_ScenarioAmended ==
    Scenario =>
        Column(Returned, "mass")
            = <<R(100), Rat(2000210001, 20000000), Rat(200005, 1000)>>

C3_Witness == Scenario /\ hits = <<0, 1, 0>>

\* C4: the Spectrum the caller passed keeps its rows, masses, row labels and
\* metadata through the whole call; the updates are made on the copy.
C4_OriginalUntouched == heap[Caller] = given

C4_Witness ==
    /\ pc = "done"
    /\ spec # Caller
    /\ Column(Returned, "mass") # Column(given.table, "mass")
    /\ Column(Returned, "label") # Column(given.table, "label")
    /\ heap[spec].metadata # given.metadata

\* the curve has two rows or more and its masses are linearly spaced from
\* its first mass m0 up to its last mass m1, as fit_kernel and extrapolate
\* space them
LinearlySpaced ==
    /\ Len(err) >= 2
    /\ RLe(err[1].mass, err[Len(err)].mass)
    /\ \A k \in 1..Len(err) :
        err[k].mass = linspace(err[1].mass, err[Len(err)].mass, Len(err), k - 1)

\* C11: for a curve of wide >= 2 rows with linearly spaced masses from m0 to
\* m1, for every bin i in 0..wide-1 the mass of row i of the curve, whose
\* ppm line 79 applies to bin i, lies in the closed interval [a[i], a[i+1]]
\* of the wide+1 bin edges.
C11_CurveValueInsideBin ==
    (pc \in {"loop", "done"} /\ LinearlySpaced) =>
        \A b \in 0..(Len(err) - 1) :
            /\ RLe(a[b + 1], err[b + 1].mass)
            /\ RLe(err[b + 1].mass, a[b + 2])

C11_Witness ==
    /\ pc = "done"
    /\ LinearlySpaced
    /\ Len(err) = GridN
    /\ RLt(err[1].mass, err[Len(err)].mass)
    /\ \E b \in 0..(Len(err) - 1) :
        RLt(a[b + 1], err[b + 1].mass) /\ RLt(err[b + 1].mass, a[b + 2])
    /\ \E k \in 1..Len(given.table) :
        hits[k] > 0 /\ Returned[k].mass # InputMass(k)

(***************************************************************************)
(* ErrorTable.md_error_map (lines 111-173)                                 *)
(***************************************************************************)
\* the masses of the observed peaks are MatchBase + 0..MaxOffset
MatchBase == 1000000
MaxOffset == 5
\* a spectrum has 1..MaxLen peaks
MaxLen == 3

\* lines 136-140: the masses gen_from_brutto gives the six building blocks,
\* in the unit of the peaks' masses
dif_masses == {2, 3}

\* range(1, 10) of line 141
MaxMultiple == 9

\* the 1000 of lines 147-148
CandidateCap == 1000

\* line 141: np.unique([dif_masses*i for i in range(1,10)]), ascending
dif_set == {d * m : d \in dif_masses, m \in 1..MaxMultiple}

RECURSIVE Ascending(_)
Ascending(S) ==
    IF S = {} THEN <<>>
    ELSE LET m == CHOOSE x \in S : \A y \in S : x <= y
         IN  <<m>> \o Ascending(S \ {m})

dif == Ascending(dif_set)

\* lines 146-149: the (at most) 1000 most intense rows, by ascending mass
Candidates(tbl) ==
    LET by_intensity == sort_values(tbl,
                AsSeq([k \in 1..Len(tbl) |-> R(-tbl[k].intensity)]))
        top == IF Len(by_intensity) > CandidateCap
               THEN SubSeq(by_intensity, 1, CandidateCap)
               ELSE by_intensity
    IN  reset_index(SortByMass(top))

\* lines 160-162: the index (from 0) of the mass the search settles on
NearestLeft(arr, mz) ==
    LET idx == searchsorted(arr, mz)
    IN  IF idx > 0 THEN idx - 1 ELSE idx

NearestTieLeft(arr, mz) ==
    LET idx == searchsorted(arr, mz)
    IN  IF idx > 0 /\ (\/ idx = Len(arr)
                       \/ RLe(fabs(RSub(mz, arr[idx])), fabs(RSub(mz, arr[idx + 1]))))
        THEN idx - 1
        ELSE idx

Nearest(arr, mz) ==
    LET idx == searchsorted(arr, mz)
    IN  IF idx > 0 /\ (\/ idx = Len(arr)
                       \/ RLt(fabs(RSub(mz, arr[idx])), fabs(RSub(mz, arr[idx + 1]))))
        THEN idx - 1
        ELSE idx

\* line 164: np.fabs(masses[idx] - mz) / mz * 1e6 <= ppm
WithinPpm(x, mz, ppm) ==
    RLe(RMul(RDiv(fabs(RSub(x, mz)), mz), R(Million)), ppm)

\* line 165: (masses[idx] - mz)/mz*1000000
PpmOf(x, mz) == RMul(RDiv(RSub(x, mz), mz), R(Million))

\* lines 157-165 for one row: what every difference i finds, in order
Tried(arr, mass, ppm) ==
    AsSeq([j \in 1..Len(dif) |->
        LET mz == RAdd(mass, R(dif[j]))
            x == arr[Nearest(arr, mz) + 1]
        IN  [mass |-> mass, ppm |-> PpmOf(x, mz), dif |-> dif[j],
             hit |-> WithinPpm(x, mz, ppm)]])

Found(arr, mass, ppm) == SelectSeq(Tried(arr, mass, ppm), LAMBDA t : t.hit)

\* the spectra: every order of 1..MaxLen masses, sorted or not
MatchSpectra ==
    UNION {[1..n -> 0..MaxOffset] : n \in 1..MaxLen}

MatchTable(offsets) ==
    AsSeq([k \in 1..Len(offsets) |->
        Peak(k - 1, R(MatchBase + offsets[k]), (3 * offsets[k] + k) % 4)])

\* the argument ppm: its default, 3
MatchPpm == {R(3)}

InitMatch ==
    /\ \E offsets \in MatchSpectra : md_spec = MatchTable(offsets)
    /\ md_ppm \in MatchPpm
    /\ masses = <<>>
    /\ data = <<>>
    /\ index = 0
    /\ data_error = <<>>
    /\ data_dif = <<>>
    /\ md_pc = "idle"
    /\ RecalIdle /\ CurveIdle /\ EtalonIdle

\* lines 143-151
md_error_map_call ==
    /\ md_pc = "idle"
    /\ masses' = Column(md_spec, "mass")
    /\ data' = Candidates(md_spec)
    /\ index' = 0
    /\ data_error' = <<>>
    /\ data_dif' = <<>>
    /\ md_pc' = "rows"
    /\ UNCHANGED <<md_spec, md_ppm, recalVars, curveVars, etalonVars>>

\* lines 153-165, one row of data
md_error_map_row ==
    /\ md_pc = "rows"
    /\ index < Len(data)
    /\ \E found \in {Found(masses, data[index + 1].mass, md_ppm)} :
        /\ data_error' = data_error \o
                AsSeq([k \in 1..Len(found) |->
                    [mass |-> found[k].mass, ppm |-> found[k].ppm]])
        /\ data_dif' = data_dif \o Column(found, "dif")
    /\ index' = index + 1
    /\ UNCHANGED <<md_spec, md_ppm, masses, data, md_pc,
                   recalVars, curveVars, etalonVars>>

\* lines 167-173
md_error_map_return ==
    /\ md_pc = "rows"
    /\ index = Len(data)
    /\ md_pc' = "done"
    /\ UNCHANGED <<md_spec, md_ppm, masses, data, index, data_error, data_dif,
                   recalVars, curveVars, etalonVars>>

NextMatch == md_error_map_call \/ md_error_map_row \/ md_error_map_return

SpecMatch == InitMatch /\ [][NextMatch]_vars

(***************************************************************************)
(* Claims about md_error_map                                               *)
(***************************************************************************)
AscendingMasses ==
    \A k \in 1..(Len(masses) - 1) : RLe(masses[k], masses[k + 1])

\* the entries of data_error that row mass m and difference d produced
EmittedFor(m, d) ==
    {e \in 1..Len(data_error) : data_error[e].mass = m /\ data_dif[e] = d}

\* the observed masses at minimal distance from mz, and the one the search
\* is to settle on: the right one of two equally distant neighbours
Closest(mz) ==
    {x \in Range(masses) :
        \A y \in Range(masses) : RLe(fabs(RSub(x, mz)), fabs(RSub(y, mz)))}

Settled(mz) == CHOOSE x \in Closest(mz) : \A y \in Closest(mz) : RLe(y, x)

\* C5: for an ascending observed mass array, every candidate mass m and
\* every difference d, with mz = m + d: an observation is emitted for (m, d)
\* if and only if some observed mass is within ppm of mz, and its value is
\* (x* - mz)/mz*1e6 for the observed mass x* closest to mz (the right one of
\* two equally close neighbours).
C5_NearestWithinTolerance ==
    (md_pc = "done" /\ AscendingMasses) =>
        \A r \in 1..Len(data) : \A d \in dif_set :
            LET m == data[r].mass
                mz == RAdd(m, R(d))
                near == \E x \in Range(masses) :
                            RLe(RDiv(RMul(fabs(RSub(x, mz)), R(Million)), mz), md_ppm)
                rows == {q \in 1..Len(data) : data[q].mass = m}
            IN  /\ near => Cardinality(EmittedFor(m, d)) = Cardinality(rows)
                /\ ~near => EmittedFor(m, d) = {}
                /\ \A e \in EmittedFor(m, d) :
                    data_error[e].ppm
                        = RDiv(RMul(RSub(Settled(mz), mz), R(Million)), mz)

C5_Witness ==
    /\ md_pc = "done"
    /\ AscendingMasses
    /\ \E e \in 1..Len(data_error) : RLt(data_error[e].ppm, R(0))
    /\ \E e \in 1..Len(data_error) : RLt(R(0), data_error[e].ppm)
    /\ \E r \in 1..Len(data), d \in dif_set : EmittedFor(data[r].mass, d) = {}
    /\ \E r \in 1..Len(data), d \in dif_set :
        Cardinality(Closest(RAdd(data[r].mass, R(d)))) = 2

\* the mass array is a set of base masses together with base mass + d for
\* differences d of the set, in ascending order
Synthetic ==
    /\ \A k \in 1..(Len(masses) - 1) : RLt(masses[k], masses[k + 1])
    /\ \E base \in SUBSET Range(masses), D \in SUBSET {d \in dif_set : d <= MaxOffset} :
        /\ base # {}
        /\ D # {}
        /\ Range(masses) = base \cup {RAdd(b, R(d)) : b \in base, d \in D}

\* C6 (as stated): on such a mass array every observation md_error_map
\* emits has ppm equal to 0.
C6_SyntheticAllZero ==
    (md_pc = "done" /\ Synthetic) =>
        \A e \in 1..Len(data_error) : data_error[e].ppm = R(0)

\* C6 (amended): on such a mass array every observation emitted for a pair
\* (m, d) whose m + d is itself a mass of the array has ppm equal to 0.
C6_SyntheticExactZero ==
    (md_pc = "done" /\ Synthetic) =>
        \A e \in 1..Len(data_error) :
            RAdd(data_error[e].mass, R(data_dif[e])) \in Range(masses)
                => data_error[e].ppm = R(0)

C6_Witness ==
    /\ md_pc = "done"
    /\ Synthetic
    /\ \E e \in 1..Len(data_error) :
        /\ RAdd(data_error[e].mass, R(data_dif[e])) \in Range(masses)
        /\ data_error[e].ppm = R(0)
    /\ \E e \in 1..Len(data_error) :
        RAdd(data_error[e].mass, R(data_dif[e])) \notin Range(masses)

(***************************************************************************)
(* ErrorTable.etalon_error (lines 359-425), up to the scatter it builds    *)
(***************************************************************************)
\* the masses of the peaks and of the etalon are around EtalonBase
EtalonBase == 1000
\* a spectrum has 1..MaxPeaks peaks, an etalon 0..MaxEtalon
MaxPeaks == 2
MaxEtalon == 2

\* Series.quantile(q): linear interpolation between the order statistics
quantile(values, q) ==
    LET n == Len(values)
        sorted == sort_values(values, values)
        pos == RMul(q, R(n - 1))
        lo == RFloor(pos)
        frac == RSub(pos, R(lo))
    IN  IF lo + 1 >= n THEN sorted[n]
        ELSE RAdd(sorted[lo + 1], RMul(RSub(sorted[lo + 2], sorted[lo + 1]), frac))

\* lines 398-400: the rows above the threshold, relabelled, with cal = 0
AtOrAboveTreshold(tbl, q) ==
    LET treshold == quantile(AsSeq([k \in 1..Len(tbl) |-> R(tbl[k].intensity)]), q)
        kept == SelectSeq(tbl, LAMBDA r : RLe(treshold, R(r.intensity)))
    IN  AsSeq([k \in 1..Len(kept) |->
            [label |-> k - 1, mass |-> kept[k].mass,
             intensity |-> kept[k].intensity, cal |-> R(0)]])

AboveTreshold(tbl, q) ==
    LET treshold == quantile(AsSeq([k \in 1..Len(tbl) |-> R(tbl[k].intensity)]), q)
        kept == SelectSeq(tbl, LAMBDA r : RLt(treshold, R(r.intensity)))
    IN  AsSeq([k \in 1..Len(kept) |->
            [label |-> k - 1, mass |-> kept[k].mass,
             intensity |-> kept[k].intensity, cal |-> R(0)]])

\* lines 404-405
WindowMin(mass, ppm) == RMul(mass, RSub(R(1), RDiv(ppm, R(Million))))

WindowMax(mass, ppm) == RMul(mass, RAdd(R(1), RDiv(ppm, R(Million))))

\* lines 406-409: every etalon mass inside the window overwrites cal
RECURSIVE Scan(_, _, _, _)
Scan(etalon, min_mass, max_mass, cal) ==
    IF etalon = <<>> THEN cal
    ELSE Scan(Tail(etalon), min_mass, max_mass,
              IF RLt(min_mass, Head(etalon)) /\ RLt(Head(etalon), max_mass)
              THEN Head(etalon) ELSE cal)

\* lines 414-420: the rows with cal > 0 and their error in ppm
Scatter(tbl) ==
    LET matched == SelectSeq(tbl, LAMBDA r : RLt(R(0), r.cal))
    IN  AsSeq([k \in 1..Len(matched) |->
            [mass |-> matched[k].mass,
             ppm |-> RMul(RDiv(RSub(matched[k].cal, matched[k].mass),
                               matched[k].mass),
                          R(Million))]])

\* the inputs: peaks and etalon masses at, just inside, on and outside the
\* edges of a window of 3000 ppm; quart and ppm at their defaults 0.9 and 3
\* and at 0.5 and 3000
EtalonOffsets == {0, 3, 4}

EtalonPeakRow == [off : EtalonOffsets, intensity : {1, 2}]

EtalonSpectra == UNION {[1..n -> EtalonPeakRow] : n \in 1..MaxPeaks}

EtalonTable(rows) ==
    AsSeq([k \in 1..Len(rows) |->
        Peak(k - 1, R(EtalonBase + rows[k].off), rows[k].intensity)])

Etalons == UNION {[1..n -> {R(EtalonBase + o) : o \in EtalonOffsets}] : n \in 0..MaxEtalon}

EtalonParams ==
    { [quart |-> Rat(9, 10), ppm |-> R(3)],
      [quart |-> Rat(9, 10), ppm |-> R(3000)],
      [quart |-> Rat(1, 2), ppm |-> R(3000)] }

InitEtalon ==
    /\ \E rows \in EtalonSpectra : et_spec = EtalonTable(rows)
    /\ et \in Etalons
    /\ \E p \in EtalonParams : quart = p.quart /\ et_ppm = p.ppm
    /\ df = <<>>
    /\ et_i = 0
    /\ error_table = <<>>
    /\ et_pc = "idle"
    /\ RecalIdle /\ CurveIdle /\ MatchIdle

\* lines 391-400
etalon_error_call ==
    /\ et_pc = "idle"
    /\ df' = AboveTreshold(et_spec, quart)
    /\ et_i' = 0
    /\ et_pc' = "rows"
    /\ UNCHANGED <<et_spec, et, quart, et_ppm, error_table,
                   recalVars, curveVars, matchVars>>

\* lines 403-411, one row of df
etalon_error_row ==
    /\ et_pc = "rows"
    /\ et_i < Len(df)
    /\ df' = [df EXCEPT ![et_i + 1].cal =
                Scan(et, WindowMin(df[et_i + 1].mass, et_ppm),
                     WindowMax(df[et_i + 1].mass, et_ppm), @)]
    /\ et_i' = et_i + 1
    /\ UNCHANGED <<et_spec, et, quart, et_ppm, error_table, et_pc,
                   recalVars, curveVars, matchVars>>

\* lines 414-420
etalon_error_scatter ==
    /\ et_pc = "rows"
    /\ et_i = Len(df)
    /\ error_table' = Scatter(df)
    /\ et_pc' = "done"
    /\ UNCHANGED <<et_spec, et, df, quart, et_ppm, et_i,
                   recalVars, curveVars, matchVars>>

NextEtalon == etalon_error_call \/ etalon_error_row \/ etalon_error_scatter

SpecEtalon == InitEtalon /\ [][NextEtalon]_vars

(***************************************************************************)
(* Claims about etalon_error                                               *)
(***************************************************************************)
\* the etalon mass e deviates from the peak's mass by less than ppm
InWindow(e, mass) ==
    RLt(RDiv(RMul(fabs(RSub(e, mass)), R(Million)), mass), et_ppm)

\* the peaks the scatter is to hold an observation for, in table order
Qualifying ==
    LET treshold == quantile(AsSeq([k \in 1..Len(et_spec) |->
                                       R(et_spec[k].intensity)]), quart)
    IN  SelectSeq(et_spec,
                  LAMBDA r : /\ RLt(treshold, R(r.intensity))
                             /\ \E e \in Range(et) : InWindow(e, r.mass))

\* C9: the scatter holds exactly one observation for each peak whose
\* intensity is strictly above the quart quantile and that has an etalon
\* mass within the tolerance of its mass, and none for any other peak; each
\* is (mass, (e - mass)/mass*1e6) for an etalon mass e within the tolerance,
\* so its absolute ppm never exceeds ppm.
C9_ScatterOfMatchedPeaks ==
    et_pc = "done" =>
        /\ Len(error_table) = Len(Qualifying)
        /\ \A k \in 1..Len(error_table) :
            /\ error_table[k].mass = Qualifying[k].mass
            /\ \E e \in Range(et) :
                /\ InWindow(e, error_table[k].mass)
                /\ error_table[k].ppm
                       = RDiv(RMul(RSub(e, error_table[k].mass), R(Million)),
                              error_table[k].mass)
            /\ RLe(fabs(error_table[k].ppm), et_ppm)

C9_Witness ==
    /\ et_pc = "done"
    /\ Len(error_table) = 1
    /\ error_table[1].ppm # R(0)
    /\ Len(et) = 2
    /\ \E k \in 1..Len(et_spec) :
        /\ et_spec[k].mass # error_table[1].mass
        /\ \E e \in Range(et) : InWindow(e, et_spec[k].mass)

=============================================================================
